---- MODULE Spec2Model ----
(***************************************************************************)
(* The Wildfire module (wildfire.js): hazards that spread from the flagged *)
(* tokens of a scene into neighbouring grid cells inside flammable         *)
(* drawings, one step per combat turn.                                     *)
(*                                                                         *)
(* The scene (tokens, drawings), the registry game.wildfires and the       *)
(* combat tracker are the state.  A call of the async method spread()      *)
(* runs synchronously up to its first await, so its whole evaluation       *)
(* (every roll included) is one action; the host's answer to createMany    *)
(* and the continuations behind the awaits are the other actions.          *)
(***************************************************************************)
EXTENDS Integers, Sequences, FiniteSets, TLC

\* ------------------------------------------------------------- bounds
\* hazards the session registers at most (createWildfire calls)
MaxWildfires == 2

\* hazards the user adds with the tracker's button in a session at the table
MaxButtonClicks == 1

\* canvas.grid.grid.w: the width in pixels of a grid space
gridSize == 50

\* The Chance policies the callers pass: "1d1" against 0 (certain), "1d2"
\* against 2 (a draw equal to the target is possible, and so is a miss) and
\* "1d2" against 3 (impossible).
Chances ==
    { [formula |-> [dice |-> 1, faces |-> 1], target |-> 0],
      [formula |-> [dice |-> 1, faces |-> 2], target |-> 2],
      [formula |-> [dice |-> 1, faces |-> 2], target |-> 3] }

\* The tokens of the scene before any hazard exists: one on a cell corner,
\* one off the corners (inside cell [0, 2]), neither flagged.
SceneTokens ==
    << [x |-> 0,   y |-> 0,  fire |-> FALSE, name |-> "Fire"],
       [x |-> 110, y |-> 10, fire |-> FALSE, name |-> "Fire"] >>

\* The drawings of the scene: the first, freely placed, overlaps the cells
\* [0, 0] and [0, 1] and ends exactly on the left edge of cell [0, 2]; the
\* second covers cell [0, 2] and is not flammable until the user marks it.
SceneDrawings ==
    << [x |-> 10,  y |-> 10, width |-> 90, height |-> 30, flammable |-> TRUE],
       [x |-> 100, y |-> 0,  width |-> 50, height |-> 50, flammable |-> FALSE] >>

VARIABLES
    tokens,      \* canvas.tokens.objects.children: the placed tokens' data
    drawings,    \* canvas.drawings.objects.children
    wildfires,   \* game.wildfires: the registered Wildfire instances
    steps,       \* per instance: where its spread() invocation stands
    combatants,  \* the combat tracker's participants
    containment,   \* a call areaContains(area, cell) and what it returned
    notifications  \* the warnings ui.notifications.warn has shown

vars == <<tokens, drawings, wildfires, steps, combatants, containment,
          notifications>>

\* ---------------------------------------------------- sequence helpers
Range(s) == { s[i] : i \in 1..Len(s) }

\* ------------------------------------------------ grid geometry (host)
\* getGridPositionFromPixels of the host's square grid
getGridPos(x, y) == << y \div gridSize, x \div gridSize >>

\* getPixelsFromGridPosition of the host's square grid
getPixelPos(cell) == << cell[2] * gridSize, cell[1] * gridSize >>

\* getNeighbors of the host's square grid: the eight surrounding cells
getNeighbors(cell) ==
    LET row == cell[1]
        col == cell[2]
    IN  << <<row - 1, col - 1>>, <<row - 1, col>>, <<row - 1, col + 1>>,
           <<row, col - 1>>,                        <<row, col + 1>>,
           <<row + 1, col - 1>>, <<row + 1, col>>, <<row + 1, col + 1>> >>

\* new Roll(formula).roll().total: every total the dice can show
RollTotals(formula) == formula.dice .. (formula.dice * formula.faces)

\* ------------------------------------------------------- Wildfire class
isFire(t) == t.fire

\* every token of the scene, flagged or not
realFiresUnfiltered(toks) == toks

realFires(toks) == SelectSeq(toks, isFire)

\* fires without the fires lit in this step
firesPlaced(toks, newFires) == realFires(toks)

fires(toks, newFires) == realFires(toks) \o newFires

isBurning(toks, newFires, cell) ==
    LET p == getPixelPos(cell)
        f == fires(toks, newFires)
    IN  \E i \in 1..Len(f) : f[i].x = p[1] /\ f[i].y = p[2]

isFlammableDrawing(d) == d.flammable

flammableAreas(drs) == SelectSeq(drs, isFlammableDrawing)

\* the return expression of areaContains with `>` for `>=`: rectangles
\* that share a border line count as overlapping
intersectsInclusive(tl1, br1, tl2, br2) ==
    ~ (    tl1.x > br2.x
        \/ tl2.x > br1.x
        \/ tl1.y > br2.y
        \/ tl2.y > br1.y )

\* The return expression of areaContains over the corners of rectangle 1
\* (there the drawing) and rectangle 2 (there the cell).
intersects(tl1, br1, tl2, br2) ==
    ~ (    tl1.x >= br2.x
        \/ tl2.x >= br1.x
        \/ tl1.y >= br2.y
        \/ tl2.y >= br1.y )

areaContains(area, cell) ==
    LET c   == getPixelPos(cell)
        tl1 == [x |-> area.x, y |-> area.y]
        tl2 == [x |-> c[1], y |-> c[2]]
        br1 == [x |-> tl1.x + area.width, y |-> tl1.y + area.height]
        br2 == [x |-> tl2.x + gridSize, y |-> tl2.y + gridSize]
    IN  intersects(tl1, br1, tl2, br2)

isInFlammableArea(drs, cell) ==
    LET a == flammableAreas(drs)
    IN  \E i \in 1..Len(a) : areaContains(a[i], cell)

\* isFlammable without the flammable-area test
isFlammableAnywhere(toks, drs, newFires, cell) ==
    ~ isBurning(toks, newFires, cell)

isFlammable(toks, drs, newFires, cell) ==
    /\ ~ isBurning(toks, newFires, cell)
    /\ isInFlammableArea(drs, cell)

\* light(cell): a copy of the template, placed on the cell, joins newFires
light(template, newFires, cell) ==
    LET p == getPixelPos(cell)
    IN  Append(newFires, [template EXCEPT !.x = p[1], !.y = p[2]])

\* spreadToCell with the comparison `<=`: a draw equal to the target misses
spreadToCellStrict(toks, drs, template, e, cell, chance) ==
    IF ~ isFlammable(toks, drs, e.newFires, cell)
    THEN { e }
    ELSE { [ newFires |-> IF total <= chance.target
                          THEN e.newFires
                          ELSE light(template, e.newFires, cell),
             rolls    |-> Append(e.rolls, [cell |-> cell, total |-> total]) ]
           : total \in RollTotals(chance.formula) }

\* The evaluation of one step carries newFires and the log of its rolls.
\* spreadToCell gives every outcome the roll allows.
spreadToCell(toks, drs, template, e, cell, chance) ==
    IF ~ isFlammable(toks, drs, e.newFires, cell)
    THEN { e }
    ELSE { [ newFires |-> IF total < chance.target
                          THEN e.newFires
                          ELSE light(template, e.newFires, cell),
             rolls    |-> Append(e.rolls, [cell |-> cell, total |-> total]) ]
           : total \in RollTotals(chance.formula) }

\* neighbors.forEach(cell => this.spreadToCell(cell, chance)), from index i
RECURSIVE forEachNeighbor(_, _, _, _, _, _, _)
forEachNeighbor(toks, drs, template, E, neighbors, i, chance) ==
    IF i > Len(neighbors)
    THEN E
    ELSE forEachNeighbor(toks, drs, template,
             UNION { spreadToCell(toks, drs, template, e, neighbors[i], chance)
                     : e \in E },
             neighbors, i + 1, chance)

\* spreadToNeighbors that goes on from the record lit last: a cell lit in
\* this step is a source in this step
spreadToNeighborsChained(toks, drs, template, E, fire, chance) ==
    LET first == forEachNeighbor(toks, drs, template, E,
                                 getNeighbors(getGridPos(fire.x, fire.y)), 1, chance)
    IN  UNION { IF e.newFires = <<>>
                THEN { e }
                ELSE LET last == e.newFires[Len(e.newFires)]
                     IN  forEachNeighbor(toks, drs, template, { e },
                                         getNeighbors(getGridPos(last.x, last.y)),
                                         1, chance)
                : e \in first }

spreadToNeighbors(toks, drs, template, E, fire, chance) ==
    LET cell      == getGridPos(fire.x, fire.y)
        neighbors == getNeighbors(cell)
    IN  forEachNeighbor(toks, drs, template, E, neighbors, 1, chance)

\* The loop over realFires ended after the first fire
forEachFireFirstOnly(toks, drs, template, E, rf, i, chance) ==
    IF Len(rf) = 0
    THEN E
    ELSE spreadToNeighbors(toks, drs, template, E, rf[1], chance)

\* this.realFires.forEach(fire => this.spreadToNeighbors(fire, chance))
RECURSIVE forEachFire(_, _, _, _, _, _, _)
forEachFire(toks, drs, template, E, rf, i, chance) ==
    IF i > Len(rf)
    THEN E
    ELSE forEachFire(toks, drs, template,
             spreadToNeighbors(toks, drs, template, E, rf[i], chance),
             rf, i + 1, chance)

\* An instance with no spread() invocation in flight and none made yet.
NoStep ==
    [ pc |-> "idle", batch |-> <<>>, promise |-> "none", rolls |-> <<>>,
      lastCall |-> "none" ]

\* spread(chance) without the guard on this.spreading
spreadUnguarded(toks, drs, w, s, chance) ==
    { << [w EXCEPT !.spreading = TRUE, !.newFires = e.newFires],
         [ pc       |-> "commit",
           batch    |-> e.newFires,
           promise  |-> "pending",
           rolls    |-> e.rolls,
           lastCall |-> "step" ] >>
      : e \in forEachFire(toks, drs, w.token,
                          { [newFires |-> w.newFires, rolls |-> <<>>] },
                          realFires(toks), 1, chance) }

\* spread(chance), up to its first suspension: the guard, the evaluation
\* and the call of createMany(this.newFires) inside createNewFires.  Gives
\* every <<instance, step>> the rolls allow.
spread(toks, drs, w, s, chance) ==
    IF w.spreading
    THEN { << w, [s EXCEPT !.lastCall = "noop"] >> }
    ELSE { << [w EXCEPT !.spreading = TRUE, !.newFires = e.newFires],
              [ pc       |-> "commit",
                batch    |-> e.newFires,
                promise  |-> "pending",
                rolls    |-> e.rolls,
                lastCall |-> "step" ] >>
           : e \in forEachFire(toks, drs, w.token,
                               { [newFires |-> w.newFires, rolls |-> <<>>] },
                               realFires(toks), 1, chance) }

\* game.wildfires.forEach(fire => fire.spread()), from index i: every
\* instance evaluates in turn, each with its stored chance, before any
\* commit is answered.  R is a set of <<wildfires, steps>> pairs.
RECURSIVE forEachWildfire(_, _, _, _)
forEachWildfire(toks, drs, R, i) ==
    IF \A r \in R : i > Len(r[1])
    THEN R
    ELSE forEachWildfire(toks, drs,
             UNION { { << [r[1] EXCEPT ![i] = o[1]], [r[2] EXCEPT ![i] = o[2]] >>
                       : o \in spread(toks, drs, r[1][i], r[2][i], r[1][i].chance) }
                     : r \in R },
             i + 1)

\* No call of areaContains is under observation.
NoCall == [ pc |-> "none" ]

\* ------------------------------------------------------------ actions
Init ==
    /\ tokens = SceneTokens
    /\ drawings = SceneDrawings
    /\ wildfires = <<>>
    /\ steps = <<>>
    /\ combatants = << [fire |-> FALSE, name |-> "Player"] >>
    /\ containment = NoCall
    /\ notifications = {}

\* createWildfire that builds the instance before it flags the source: the
\* template is the source's data without the flag
CreateWildfireSnapshotFirst(source, chance) ==
    /\ Len(wildfires) < MaxWildfires
    /\ tokens' = [tokens EXCEPT ![source].fire = TRUE]
    /\ combatants' = Append(combatants,
           [fire |-> TRUE, name |-> tokens[source].name])
    /\ wildfires' = Append(wildfires,
           [ token     |-> tokens[source],
             chance    |-> chance,
             newFires  |-> <<>>,
             spreading |-> FALSE,
             combatant |-> Len(combatants) + 1 ])
    /\ steps' = Append(steps, NoStep)
    /\ UNCHANGED <<drawings, containment, notifications>>

\* createWildfire without source.setFlag: the instance is built and
\* registered, the source stays as it was
CreateWildfireUnmarked(source, chance) ==
    /\ Len(wildfires) < MaxWildfires
    /\ combatants' = Append(combatants,
           [fire |-> TRUE, name |-> tokens[source].name])
    /\ wildfires' = Append(wildfires,
           [ token     |-> tokens[source],
             chance    |-> chance,
             newFires  |-> <<>>,
             spreading |-> FALSE,
             combatant |-> Len(combatants) + 1 ])
    /\ steps' = Append(steps, NoStep)
    /\ UNCHANGED <<tokens, drawings, containment, notifications>>

\* Wildfire.createWildfire(source, formula, target): the host answers
\* source.setFlag("wildfire", "fire", true), so the source carries the
\* flag; the instance is built from the source's data, its combatant joins
\* the tracker and the instance joins game.wildfires.  Nothing reads the
\* call while it waits for setFlag, so call and continuation are one step.
CreateWildfire(source, chance) ==
    /\ Len(wildfires) < MaxWildfires
    /\ LET marked == [tokens EXCEPT ![source].fire = TRUE]
       IN  /\ tokens' = marked
           /\ combatants' = Append(combatants,
                  [fire |-> TRUE, name |-> marked[source].name])
           /\ wildfires' = Append(wildfires,
                  [ token     |-> marked[source],
                    chance    |-> chance,
                    newFires  |-> <<>>,
                    spreading |-> FALSE,
                    combatant |-> Len(combatants) + 1 ])
           /\ steps' = Append(steps, NoStep)
    /\ UNCHANGED <<drawings, containment, notifications>>

\* Wildfire.setFlammableDrawings() with the drawings `selected` controlled:
\* with none it warns and returns; otherwise updateMany sets the flag on
\* each of them.
SetFlammableDrawings(selected) ==
    IF selected = {}
    THEN /\ notifications' = notifications \cup {"noSelectedDrawings"}
         /\ UNCHANGED <<tokens, drawings, wildfires, steps, combatants, containment>>
    ELSE /\ drawings' = [ i \in 1..Len(drawings) |->
                            IF i \in selected
                            THEN [drawings[i] EXCEPT !.flammable = TRUE]
                            ELSE drawings[i] ]
         /\ UNCHANGED <<tokens, wildfires, steps, combatants, containment, notifications>>

\* Hooks.on("updateCombat") with combat.combatant = combatants[c], the
\* participant whose turn it is
UpdateCombat(c) ==
    /\ IF combatants[c].fire
       THEN \E r \in forEachWildfire(tokens, drawings, { <<wildfires, steps>> }, 1) :
               /\ wildfires' = r[1]
               /\ steps' = r[2]
       ELSE UNCHANGED <<wildfires, steps>>
    /\ UNCHANGED <<tokens, drawings, combatants, containment, notifications>>

\* A direct call fire.spread() on instance h, as spreadFire() makes it
Spread(h) ==
    /\ \E o \in spread(tokens, drawings, wildfires[h], steps[h], wildfires[h].chance) :
          /\ wildfires' = [wildfires EXCEPT ![h] = o[1]]
          /\ steps' = [steps EXCEPT ![h] = o[2]]
    /\ UNCHANGED <<tokens, drawings, combatants, containment, notifications>>

\* spread() that returns after createNewFires without releasing the guard
spreadResumeStuck(w) == w

\* createNewFires after its await: notify, this.newFires = []
createNewFiresResume(w) == [w EXCEPT !.newFires = <<>>]

\* spread() after await this.createNewFires(): this.spreading = false
spreadResume(w) == [w EXCEPT !.spreading = FALSE]

isNoFire(t) == ~ t.fire

\* A commit that puts the batch in the place of the fires on the canvas
CommitSucceedReplacing(h) ==
    /\ steps[h].pc = "commit"
    /\ tokens' = SelectSeq(tokens, isNoFire) \o steps[h].batch
    /\ wildfires' = [wildfires EXCEPT
                       ![h] = spreadResume(createNewFiresResume(wildfires[h]))]
    /\ steps' = [steps EXCEPT ![h] = [NoStep EXCEPT !.promise = "fulfilled"]]
    /\ UNCHANGED <<drawings, combatants, containment, notifications>>

\* canvas.tokens.createMany(batch) of instance h succeeds: the host places
\* the tokens and resolves the promise createNewFires awaits.  The host
\* runs the continuations of a resolved promise before it delivers another
\* event, so createNewFires and then spread() resume within this step, and
\* the promise spread() returned is fulfilled.
CommitSucceed(h) ==
    /\ steps[h].pc = "commit"
    /\ tokens' = tokens \o steps[h].batch
    /\ wildfires' = [wildfires EXCEPT
                       ![h] = spreadResume(createNewFiresResume(wildfires[h]))]
    /\ steps' = [steps EXCEPT ![h] = [NoStep EXCEPT !.promise = "fulfilled"]]
    /\ UNCHANGED <<drawings, combatants, containment, notifications>>

\* A failed createMany caught and swallowed: the step ends as a success
CommitFailSwallowed(h, n) ==
    /\ steps[h].pc = "commit"
    /\ wildfires' = [wildfires EXCEPT
                       ![h] = spreadResume(createNewFiresResume(wildfires[h]))]
    /\ steps' = [steps EXCEPT ![h] = [NoStep EXCEPT !.promise = "fulfilled"]]
    /\ UNCHANGED <<tokens, drawings, combatants, containment, notifications>>

\* createMany fails, having placed the first n tokens of the batch (the
\* host's batch creation is not all-or-nothing).  createNewFires throws out
\* of its await, and so does spread() out of its own: neither runs another
\* statement, and the promise spread() returned is rejected.
CommitFail(h, n) ==
    /\ steps[h].pc = "commit"
    /\ n \in 0..Len(steps[h].batch)
    /\ tokens' = tokens \o SubSeq(steps[h].batch, 1, n)
    /\ steps' = [steps EXCEPT ![h] = [NoStep EXCEPT !.promise = "rejected"]]
    /\ UNCHANGED <<drawings, wildfires, combatants, containment, notifications>>

Next ==
    \/ \E source \in 1..Len(tokens), chance \in Chances : CreateWildfire(source, chance)
    \/ \E selected \in SUBSET (1..Len(drawings)) \ {{}} : SetFlammableDrawings(selected)
    \/ \E c \in 1..Len(combatants) : UpdateCombat(c)
    \/ \E h \in 1..Len(wildfires) : Spread(h)
    \/ \E h \in 1..Len(wildfires) : CommitSucceed(h)
    \/ \E h \in 1..Len(wildfires) : \E n \in 0..Len(steps[h].batch) : CommitFail(h, n)

Spec == Init /\ [][Next]_vars

\* ------------------------------------------------ a session at the table
\* The chance onCreateButtonClick passes to createWildfire: "1d6" against 1
ButtonChance == [formula |-> [dice |-> 1, faces |-> 6], target |-> 1]

\* canvas.tokens.controlled: no token, or one, or two in the order the user
\* selected them
Controlled(toks) ==
    {<<>>} \cup { <<i>> : i \in 1..Len(toks) }
           \cup { s \in (1..Len(toks)) \X (1..Len(toks)) : s[1] # s[2] }

\* The names a user gives a placed token
TokenNames == {"Fire", "Ember"}

\* Where a user pastes a copied token: the corner of cell [0, 3]
PastePositions == { <<150, 0>> }

\* onCreateButtonClick that takes the scene's first token when none is
\* controlled
OnCreateButtonClickAnyToken(controlled) ==
    IF Len(controlled) < 1
    THEN CreateWildfire(1, ButtonChance)
    ELSE CreateWildfire(controlled[1], ButtonChance)

\* Wildfire.onCreateButtonClick(): with no token controlled it warns and
\* returns; otherwise it calls createWildfire with the first of them.
OnCreateButtonClick(controlled) ==
    IF Len(controlled) < 1
    THEN /\ notifications' = notifications \cup {"noSelectedToken"}
         /\ UNCHANGED <<tokens, drawings, wildfires, steps, combatants, containment>>
    ELSE CreateWildfire(controlled[1], ButtonChance)

\* A template that is the token's data itself: an edit of a token shows in
\* the template of every instance built from it
UpdateTokenAliased(i, name) ==
    /\ tokens[i].name # name
    /\ tokens' = [tokens EXCEPT ![i].name = name]
    /\ wildfires' = [ h \in 1..Len(wildfires) |->
                        IF wildfires[h].token = tokens[i]
                        THEN [wildfires[h] EXCEPT !.token.name = name]
                        ELSE wildfires[h] ]
    /\ UNCHANGED <<drawings, steps, combatants, containment, notifications>>

\* The user edits token i of the scene (the host's token.update): tkn.data
\* changes, the copies the instances took of it do not
UpdateToken(i, name) ==
    /\ tokens[i].name # name
    /\ tokens' = [tokens EXCEPT ![i].name = name]
    /\ UNCHANGED <<drawings, wildfires, steps, combatants, containment, notifications>>

\* The user copies placed token i and pastes it on a free spot: the host
\* places a token with the same data, flags included
PasteToken(i, pos) ==
    /\ \A t \in Range(tokens) : << t.x, t.y >> # pos
    /\ tokens' = Append(tokens, [tokens[i] EXCEPT !.x = pos[1], !.y = pos[2]])
    /\ UNCHANGED <<drawings, wildfires, steps, combatants, containment, notifications>>

\* Code outside the class edits record i of instance h's newFires, the
\* objects light() pushed
EditNewFire(h, i, name) ==
    /\ wildfires[h].newFires[i].name # name
    /\ wildfires' = [wildfires EXCEPT ![h].newFires[i].name = name]
    /\ UNCHANGED <<tokens, drawings, steps, combatants, containment, notifications>>

SessionNext ==
    \/ \E controlled \in Controlled(tokens) :
          /\ controlled # <<>> => Len(wildfires) < MaxButtonClicks
          /\ OnCreateButtonClick(controlled)
    \/ \E selected \in SUBSET (1..Len(drawings)) : SetFlammableDrawings(selected)
    \/ \E c \in 1..Len(combatants) : UpdateCombat(c)
    \/ \E h \in 1..Len(wildfires) : CommitSucceed(h)
    \/ \E h \in 1..Len(wildfires) : \E n \in 0..Len(steps[h].batch) : CommitFail(h, n)
    \/ \E i \in 1..Len(SceneTokens), name \in TokenNames : UpdateToken(i, name)
    \/ \E i \in 1..Len(tokens), pos \in PastePositions : PasteToken(i, pos)
    \/ \E h \in 1..Len(wildfires) :
          \E i \in 1..Len(wildfires[h].newFires), name \in TokenNames :
              EditNewFire(h, i, name)

SessionSpec == Init /\ [][SessionNext]_vars

\* ------------------------------------- a combat whose commits succeed
\* The user adds a hazard with the tracker's button ("1d6" against 1: every
\* draw reaches the target) and marks drawings; the combat goes on, so turn
\* events keep coming, and the host answers every createMany with success.
CombatNext ==
    \/ \E controlled \in Controlled(tokens) :
          /\ controlled # <<>> => Len(wildfires) < MaxButtonClicks
          /\ OnCreateButtonClick(controlled)
    \/ \E selected \in SUBSET (1..Len(drawings)) : SetFlammableDrawings(selected)
    \/ \E c \in 1..Len(combatants) : UpdateCombat(c)
    \/ \E h \in 1..Len(wildfires) : CommitSucceed(h)

CombatSpec ==
    /\ Init
    /\ [][CombatNext]_vars
    /\ WF_vars(\E c \in 1..Len(combatants) : UpdateCombat(c))
    /\ WF_vars(\E h \in 1..Len(wildfires) : CommitSucceed(h))

\* ------------------------------------------- areaContains on its own
\* The drawings handed to areaContains: rectangles a user draws freely,
\* on the grid lines and off them, smaller and larger than a grid space,
\* some starting left of or above the scene's first cell.
Areas ==
    { [x |-> x, y |-> y, width |-> w, height |-> h, flammable |-> TRUE]
      : x \in {-30, 0, 10, 50, 75}, w \in {25, 50, 90},
        y \in {-30, 0, 20},         h \in {30, 50} }

\* The cells handed to areaContains, [row, col]
Cells == (0..1) \X (0..2)

\* A cell as the rectangle areaContains makes of it
cellRect(cell) ==
    [ x     |-> getPixelPos(cell)[1], y      |-> getPixelPos(cell)[2],
      width |-> gridSize,             height |-> gridSize ]

topLeft(r) == [x |-> r.x, y |-> r.y]
bottomRight(r) == [x |-> r.x + r.width, y |-> r.y + r.height]

\* areaContains is about to be called with a drawing and a cell
ContainmentInit ==
    /\ tokens = <<>>
    /\ drawings = <<>>
    /\ wildfires = <<>>
    /\ steps = <<>>
    /\ combatants = <<>>
    /\ notifications = {}
    /\ containment \in { [ pc |-> "call", area |-> a, cell |-> c,
                            result |-> FALSE, swapped |-> FALSE ]
                          : a \in Areas, c \in Cells }

\* this.areaContains(area, cell) returns
AreaContains ==
    /\ containment.pc = "call"
    /\ containment' = [containment EXCEPT
                          !.pc = "returned",
                          !.result = areaContains(containment.area, containment.cell)]
    /\ UNCHANGED <<tokens, drawings, wildfires, steps, combatants, notifications>>

\* The same test with the cell's rectangle in the place of the drawing's
\* and the drawing's in the place of the cell's
AreaContainsSwapped ==
    /\ containment.pc = "returned"
    /\ containment' = [containment EXCEPT
                          !.pc = "swapped",
                          !.swapped = intersects(topLeft(cellRect(containment.cell)),
                                                 bottomRight(cellRect(containment.cell)),
                                                 topLeft(containment.area),
                                                 bottomRight(containment.area))]
    /\ UNCHANGED <<tokens, drawings, wildfires, steps, combatants, notifications>>

ContainmentNext == AreaContains \/ AreaContainsSwapped

ContainmentSpec == ContainmentInit /\ [][ContainmentNext]_vars

\* ---------------------------------------------------------- properties
Hazards == 1..Len(wildfires)

\* This step takes instance h through the guard of spread().
Passes(h) == ~ wildfires[h].spreading /\ wildfires'[h].spreading

\* This step calls createMany for instance h.
IssuesCommit(h) ==
    /\ steps'[h].pc = "commit"
    /\ \/ steps[h].pc # "commit"
       \/ steps'[h].batch # steps[h].batch
       \/ steps'[h].rolls # steps[h].rolls

\* The grid cells that hold a burning entity, as spreadToNeighbors places
\* each entity on the grid.
BurningCells(toks) ==
    { getGridPos(t.x, t.y) : t \in Range(realFires(toks)) }

\* The cells of a batch of ignition records.
CellsOf(records) == { getGridPos(r.x, r.y) : r \in Range(records) }

Max(a, b) == IF a > b THEN a ELSE b
Min(a, b) == IF a < b THEN a ELSE b

\* The square of side gridSize at pixel (x, y) and the rectangle of drawing
\* d share a region of positive area.
Overlaps(d, x, y) ==
    /\ Max(d.x, x) < Min(d.x + d.width, x + gridSize)
    /\ Max(d.y, y) < Min(d.y + d.height, y + gridSize)

InFlammableRegion(drs, x, y) ==
    \E d \in Range(drs) : d.flammable /\ Overlaps(d, x, y)

\* C1: while a spread() of an instance is in flight, nothing but the
\* answer to its own commit changes the instance: a further spread() call
\* makes no roll, adds nothing to newFires, starts no second commit and
\* raises nothing, so the batch in flight is committed as the first call
\* evaluated it.
C1_GuardedCallIsNoOp ==
    [][ \A h \in Hazards :
          (steps[h].pc = "commit" /\ ~ CommitSucceed(h)
                                  /\ ~ \E n \in 0..Len(steps[h].batch) : CommitFail(h, n))
          => /\ wildfires'[h] = wildfires[h]
             /\ steps'[h].pc = "commit"
             /\ steps'[h].batch = steps[h].batch
             /\ steps'[h].rolls = steps[h].rolls
             /\ steps'[h].promise = "pending"
             /\ steps[h].batch = wildfires[h].newFires ]_vars

\* A spread() call was dropped by the guard while a step that ignited
\* something is in flight.
C1_Witness ==
    \E h \in Hazards :
        /\ steps[h].pc = "commit"
        /\ steps[h].lastCall = "noop"
        /\ steps[h].batch # <<>>

\* C2: whenever no spread() of an instance is in flight, its guard flag is
\* released, after a failed commit as after a successful one.
C2_GuardReleased ==
    \A h \in Hazards : steps[h].pc = "idle" => ~ wildfires[h].spreading

\* C3: createMany is called exactly once by every step that passes the
\* guard and by nothing else, with the ignitions of that step; a failed
\* commit rejects the promise spread() returned and is not issued again.
C3_FailureSurfacedNoRetry ==
    [][ \A h \in Hazards :
          /\ IssuesCommit(h) <=> Passes(h)
          /\ Passes(h) => steps'[h].batch = wildfires'[h].newFires
          /\ (\E n \in 0..Len(steps[h].batch) : CommitFail(h, n))
                => /\ steps'[h].promise = "rejected"
                   /\ steps'[h].pc = "idle"
          /\ (steps[h].promise = "rejected" /\ ~ Passes(h))
                => /\ steps'[h].promise = "rejected"
                   /\ steps'[h].pc = "idle" ]_vars

\* The commit of a step with ignitions has failed.
C3_Witness ==
    \E h \in Hazards :
        /\ steps[h].promise = "rejected"
        /\ wildfires[h].newFires # <<>>

\* C4: every ignition record, pending or handed to createMany, lies on a
\* cell whose square overlaps a flammable drawing, whatever the rolls.
C4_FlammabilityGating ==
    \A h \in Hazards :
        \A r \in Range(wildfires[h].newFires) \cup Range(steps[h].batch) :
            InFlammableRegion(drawings, r.x, r.y)

\* A step of certain spread (target 0) is in flight and has ignited a cell,
\* while other neighbours of its sources lie outside every flammable drawing.
C4_Witness ==
    \E h \in Hazards :
        /\ steps[h].pc = "commit"
        /\ wildfires[h].chance.target = 0
        /\ steps[h].batch # <<>>
        /\ \E t \in Range(realFires(tokens)) :
              \E c \in Range(getNeighbors(getGridPos(t.x, t.y))) :
                  ~ InFlammableRegion(drawings, getPixelPos(c)[1], getPixelPos(c)[2])

\* The burning entities that have cell c as a neighbour.
SourcesOf(toks, c) ==
    { i \in 1..Len(toks) :
        /\ toks[i].fire
        /\ c \in Range(getNeighbors(getGridPos(toks[i].x, toks[i].y))) }

\* The rolls of a log that were made for cell c.
RollsFor(rolls, c) == { i \in 1..Len(rolls) : rolls[i].cell = c }

\* C5 as claimed: within one step no cell is rolled twice.
C5_OneRollPerCell ==
    \A h \in Hazards :
        \A i, j \in 1..Len(steps[h].rolls) :
            steps[h].rolls[i].cell = steps[h].rolls[j].cell => i = j

\* C5, amended: within one step a cell is rolled at most once for each
\* burning entity that has it as a neighbour, and never again once a draw
\* for it has reached the target; a cell whose draw missed is rolled again
\* for the next burning entity beside it.
C5_OneRollPerSourceUntilLit ==
    \A h \in Hazards :
        LET rolls  == steps[h].rolls
            target == wildfires[h].chance.target
        IN  \A i \in 1..Len(rolls) :
                /\ Cardinality(RollsFor(rolls, rolls[i].cell))
                       <= Cardinality(SourcesOf(tokens, rolls[i].cell))
                /\ \A j \in 1..Len(rolls) :
                       (i < j /\ rolls[i].cell = rolls[j].cell)
                       => rolls[i].total < target

\* A cell beside two burning entities was rolled twice in one step: the
\* first draw missed, the second reached the target.
C5_Witness ==
    \E h \in Hazards :
        \E i, j \in 1..Len(steps[h].rolls) :
            /\ i < j
            /\ steps[h].rolls[i].cell = steps[h].rolls[j].cell
            /\ steps[h].rolls[i].total < wildfires[h].chance.target
            /\ steps[h].rolls[j].total >= wildfires[h].chance.target

\* The records of a sequence are pairwise on different cells.
NoCellTwice(records) ==
    \A i, j \in 1..Len(records) :
        getGridPos(records[i].x, records[i].y) = getGridPos(records[j].x, records[j].y)
        => i = j

\* C6: the batch a step hands to createMany holds no cell twice and no
\* cell that held a burning entity when the step began.
C6_NoDoubleIgnition ==
    [][ \A h \in Hazards :
          Passes(h) => /\ NoCellTwice(steps'[h].batch)
                       /\ CellsOf(steps'[h].batch) \cap BurningCells(tokens) = {} ]_vars

\* The cells a step of certain spread has to ignite: the neighbours of the
\* burning cells that overlap a flammable drawing and are not burning.
Eligible(toks, drs) ==
    { c \in UNION { Range(getNeighbors(b)) : b \in BurningCells(toks) } :
        /\ c \notin BurningCells(toks)
        /\ InFlammableRegion(drs, getPixelPos(c)[1], getPixelPos(c)[2]) }

\* The target is at or below the least total the formula can give.
Certain(chance) == chance.target <= chance.formula.dice

\* The target is above the greatest total the formula can give.
Impossible(chance) == chance.target > chance.formula.dice * chance.formula.faces

\* C7: a step of certain spread hands to createMany exactly the eligible
\* cells.
C7_CertainSpread ==
    [][ \A h \in Hazards :
          (Passes(h) /\ Certain(wildfires[h].chance))
          => CellsOf(steps'[h].batch) = Eligible(tokens, drawings) ]_vars

\* The cells of a sequence of records or rolls, in order.
CellSeq(records) == [ i \in 1..Len(records) |-> getGridPos(records[i].x, records[i].y) ]
RollCellSeq(rolls) == [ i \in 1..Len(rolls) |-> rolls[i].cell ]

\* C8: the cells a step ignites are, in order, the cells of its rolls that
\* were at or above the target; with a target above the formula's greatest
\* total the step ignites nothing and its batch is empty.
C8_IgnitesIffDrawReachesTarget ==
    \A h \in Hazards :
        steps[h].pc = "commit" =>
            LET target == wildfires[h].chance.target
                Hit(r) == r.total >= target
            IN  /\ CellSeq(steps[h].batch)
                       = RollCellSeq(SelectSeq(steps[h].rolls, Hit))
                /\ steps[h].batch = wildfires[h].newFires
                /\ Impossible(wildfires[h].chance) => steps[h].batch = <<>>

\* A draw equal to the target has ignited its cell.
C8_Witness ==
    \E h \in Hazards :
        /\ steps[h].pc = "commit"
        /\ \E i \in 1..Len(steps[h].rolls) :
              /\ steps[h].rolls[i].total = wildfires[h].chance.target
              /\ steps[h].rolls[i].cell \in CellsOf(steps[h].batch)

\* C9: the batches two instances have in flight share no cell.
C9_HazardsIndependent ==
    \A g, h \in Hazards :
        (g # h /\ steps[g].pc = "commit" /\ steps[h].pc = "commit")
        => CellsOf(steps[g].batch) \cap CellsOf(steps[h].batch) = {}

\* C10: a turn event steps the instance of the active participant and no
\* other; a turn event of a participant that is no hazard steps none.
C10_TurnStepsOwnHazardOnly ==
    [][ \A c \in 1..Len(combatants) :
          UpdateCombat(c)
          => \A h \in Hazards : Passes(h) => wildfires[h].combatant = c ]_vars

\* Rectangle r ends at or before the line on which rectangle s begins.
LeftOf(r, s) == r.x + r.width <= s.x
Above(r, s) == r.y + r.height <= s.y

\* One rectangle ends exactly on the line on which the other begins.
TouchOnly(r, s) ==
    \/ r.x + r.width = s.x
    \/ s.x + s.width = r.x
    \/ r.y + r.height = s.y
    \/ s.y + s.height = r.y

\* C11: areaContains returns true exactly when neither rectangle lies
\* entirely left of, right of, above or below the other; rectangles that
\* only touch along a border line do not intersect; and the test gives the
\* same with the two rectangles in each other's place.  The drawings are
\* on and off the grid lines.
C11_IntersectsIffNotSeparated ==
    containment.pc \in {"returned", "swapped"} =>
        LET a == containment.area
            c == cellRect(containment.cell)
        IN  /\ containment.result
                  <=> ~ (LeftOf(a, c) \/ LeftOf(c, a) \/ Above(a, c) \/ Above(c, a))
            /\ TouchOnly(a, c) => ~ containment.result
            /\ containment.pc = "swapped"
                  => containment.swapped = containment.result

\* A drawing off the grid lines ends exactly on the left edge of the cell
\* it was tested against, beside it, and the test was made both ways.
C11_Witness ==
    /\ containment.pc = "swapped"
    /\ containment.area.x % gridSize # 0
    /\ containment.area.x + containment.area.width
          = cellRect(containment.cell).x
    /\ ~ Above(containment.area, cellRect(containment.cell))
    /\ ~ Above(cellRect(containment.cell), containment.area)
    /\ ~ containment.result

\* C12: the template of an instance is the copy of the source's data taken
\* when the instance was created; no later step changes it, an edit of the
\* source token or of a record light() pushed included; and every record a
\* step hands to createMany is the template but for x and y.
C12_TemplateIsolated ==
    [][ /\ Len(wildfires') > Len(wildfires)
              => \E i \in 1..Len(tokens') :
                    wildfires'[Len(wildfires')].token = tokens'[i]
        /\ \A h \in Hazards :
              LET template == wildfires[h].token
              IN  /\ wildfires'[h].token = template
                  /\ Passes(h)
                        => \A r \in Range(steps'[h].batch) :
                              [r EXCEPT !.x = template.x, !.y = template.y] = template
      ]_vars

\* While a step with ignitions is in flight, the source token no longer
\* has the name the template has, and a record light() pushed was edited;
\* the batch handed to createMany carries the template's name.
C12_Witness ==
    \E h \in Hazards :
        LET template == wildfires[h].token
        IN  /\ steps[h].pc = "commit"
            /\ steps[h].batch # <<>>
            /\ \E t \in Range(tokens) :
                  /\ t.fire /\ t.x = template.x /\ t.y = template.y
                  /\ t.name # template.name
            /\ \E r \in Range(wildfires[h].newFires) : r.name # template.name
            /\ \A r \in Range(steps[h].batch) : r.name = template.name

\* Nothing but the warnings shown changes in this step.
OnlyWarns ==
    UNCHANGED <<tokens, drawings, wildfires, steps, combatants>>

\* C13: the button for a new hazard with no token controlled, and the
\* button for flammable drawings with no drawing controlled, show their
\* warning and change no token, no flag of a token or drawing, no
\* participant of the tracker and no registered instance; and no step that
\* shows a warning changes any of these.
C13_PreconditionErrorsAbort ==
    [][ /\ OnCreateButtonClick(<<>>)
              => "noSelectedToken" \in notifications' /\ OnlyWarns
        /\ SetFlammableDrawings({})
              => "noSelectedDrawings" \in notifications' /\ OnlyWarns
        /\ notifications' # notifications => OnlyWarns ]_vars

\* Both warnings were shown in a session that has a registered instance,
\* a drawing the user marked and more tokens than the scene began with.
C13_Witness ==
    /\ notifications = {"noSelectedToken", "noSelectedDrawings"}
    /\ Len(wildfires) > 0
    /\ drawings # SceneDrawings
    /\ Len(tokens) > Len(SceneTokens)

\* C14: createWildfire flags the source, and appends to game.wildfires
\* exactly one instance, built from the flagged source with the chance it
\* was given; nothing else adds an instance, and no step (a spread, a call
\* the guard drops, a failed commit) removes or replaces one.
C14_RegistryOnlyGrows ==
    [][ /\ Len(wildfires') >= Len(wildfires)
        /\ \A h \in Hazards :
              /\ wildfires'[h].token = wildfires[h].token
              /\ wildfires'[h].chance = wildfires[h].chance
              /\ wildfires'[h].combatant = wildfires[h].combatant
        /\ \A source \in 1..Len(tokens), chance \in Chances :
              CreateWildfire(source, chance)
              => /\ tokens'[source].fire
                 /\ Len(wildfires') = Len(wildfires) + 1
                 /\ wildfires'[Len(wildfires')].token = tokens'[source]
                 /\ wildfires'[Len(wildfires')].chance = chance
        /\ Len(wildfires') > Len(wildfires)
              => \E source \in 1..Len(tokens), chance \in Chances :
                    CreateWildfire(source, chance) ]_vars

\* Two instances are registered; the commit of one has failed, and a
\* spread() call of the other was dropped by the guard.
C14_Witness ==
    /\ Len(wildfires) = 2
    /\ \E g, h \in Hazards :
          /\ g # h
          /\ steps[g].promise = "rejected"
          /\ steps[h].lastCall = "noop"

\* The cells the first n rolls of a log have lit, given the target.
LitBy(rolls, n, target) ==
    { rolls[j].cell : j \in { k \in 1..n : rolls[k].total >= target } }

\* C15: the step that passes the guard evaluates every neighbour of every
\* fire against the tokens as they are when spread() is called, together
\* with what the step itself has lit so far, and only then calls
\* createMany: each roll is for a flammable cell that neither held a fire
\* when the step began nor was lit earlier in the step; every such
\* neighbour of every fire has its roll; the step itself places no token;
\* and the batch is what the evaluation collected.
C15_EvaluationBeforeCommit ==
    [][ \A h \in Hazards :
          Passes(h) =>
            LET rolls  == steps'[h].rolls
                target == wildfires[h].chance.target
            IN  /\ tokens' = tokens
                /\ steps'[h].pc = "commit"
                /\ steps'[h].batch = wildfires'[h].newFires
                /\ \A i \in 1..Len(rolls) :
                      /\ ~ isBurning(tokens, <<>>, rolls[i].cell)
                      /\ rolls[i].cell \notin LitBy(rolls, i - 1, target)
                      /\ isInFlammableArea(drawings, rolls[i].cell)
                /\ \A t \in Range(realFires(tokens)) :
                      \A c \in Range(getNeighbors(getGridPos(t.x, t.y))) :
                          (isInFlammableArea(drawings, c) /\ ~ isBurning(tokens, <<>>, c))
                          => \E i \in 1..Len(rolls) : rolls[i].cell = c
                /\ CellsOf(steps'[h].batch) = LitBy(rolls, Len(rolls), target) ]_vars

\* A step in flight has lit a cell that lies beside two fires and rolled
\* for it once: the second fire found it among the step's own ignitions.
C15_Witness ==
    \E h \in Hazards :
        /\ steps[h].pc = "commit"
        /\ \E c \in CellsOf(steps[h].batch) :
              /\ Cardinality(SourcesOf(tokens, c)) >= 2
              /\ Cardinality(RollsFor(steps[h].rolls, c)) = 1

\* C16: whenever no spread() of an instance is in flight, its newFires is
\* empty.
C16_NewFiresEmptyWhenIdle ==
    \A h \in Hazards : steps[h].pc = "idle" => wildfires[h].newFires = <<>>

\* This step is part of a spread step of a registered instance: a call of
\* spread(), by a turn event or directly, or the host's answer to its
\* createMany.
SpreadStep ==
    /\ Len(steps') = Len(steps)
    /\ steps' # steps

\* C17: a spread step changes no drawing and only appends tokens: every
\* token placed before is still there, in its place and as it was, so
\* every cell that held a fire still holds one.
C17_StepOnlyAppends ==
    [][ SpreadStep
        => /\ drawings' = drawings
           /\ Len(tokens') >= Len(tokens)
           /\ SubSeq(tokens', 1, Len(tokens)) = tokens
           /\ BurningCells(tokens) \subseteq BurningCells(tokens') ]_vars

\* A commit has placed fires in a scene whose second drawing the user
\* marked flammable.
C17_Witness ==
    /\ \E h \in Hazards : steps[h].promise = "fulfilled"
    /\ Len(realFires(tokens)) > Len(wildfires)
    /\ drawings[2].flammable

\* The cells in which a flagged token stands.
MarkedCells(toks) ==
    { getGridPos(toks[i].x, toks[i].y) : i \in { j \in 1..Len(toks) : toks[j].fire } }

\* C18: a step spreads from the flagged tokens and from nothing else, and
\* only flagged tokens make a cell burning: every roll is for a neighbour
\* of a flagged token, and every flammable neighbour of every flagged
\* token, a copy the user pasted included, gets its roll unless a flagged
\* token stands in it, whatever unflagged tokens stand there.
C18_OnlyMarkedTokensBurn ==
    [][ \A h \in Hazards :
          Passes(h) =>
            LET rolls == steps'[h].rolls
            IN  /\ \A i \in 1..Len(rolls) : SourcesOf(tokens, rolls[i].cell) # {}
                /\ \A c \in UNION { Range(getNeighbors(m)) : m \in MarkedCells(tokens) } :
                      (c \notin MarkedCells(tokens)
                       /\ InFlammableRegion(drawings, getPixelPos(c)[1], getPixelPos(c)[2]))
                      => RollsFor(rolls, c) # {} ]_vars

\* A step in flight has rolled for a cell in which an unflagged token
\* stands and whose only burning neighbour is a flagged copy the user
\* pasted.
C18_Witness ==
    \E h \in Hazards :
        /\ steps[h].pc = "commit"
        /\ \E r \in Range(steps[h].rolls) :
              /\ \E t \in Range(tokens) :
                    ~ t.fire /\ getGridPos(t.x, t.y) = r.cell
              /\ SourcesOf(tokens, r.cell) # {}
              /\ \A i \in SourcesOf(tokens, r.cell) :
                    << tokens[i].x, tokens[i].y >> \in PastePositions

\* C19: isBurning reports as burning the cell of every flagged token, the
\* cell spreadToNeighbors spreads from, wherever in the cell the token
\* stands.
C19_BurningTestAgreesWithSources ==
    \A t \in Range(realFires(tokens)) :
        isBurning(tokens, <<>>, getGridPos(t.x, t.y))

\* C20: with one instance registered, its template carries the flag, and
\* so does every record it lights; every token a commit has placed is a
\* fire that isBurning finds in its cell from then on; and no two fires
\* stand on the same spot, so no cell was lit twice.
C20_CommittedFiresAreMarked ==
    [][ Len(wildfires') = 1 =>
          /\ wildfires'[1].token.fire
          /\ \A r \in Range(wildfires'[1].newFires) \cup Range(steps'[1].batch) : r.fire
          /\ \A i \in (Len(SceneTokens) + 1)..Len(tokens') :
                /\ tokens'[i].fire
                /\ isBurning(tokens', <<>>, getGridPos(tokens'[i].x, tokens'[i].y))
          /\ \A i, j \in 1..Len(tokens') :
                (i < j /\ tokens'[i].fire /\ tokens'[j].fire)
                => << tokens'[i].x, tokens'[i].y >> # << tokens'[j].x, tokens'[j].y >>
      ]_vars

\* The only instance has finished a step, and its fire stands in three
\* cells: two successful steps have placed fires, the second beside a
\* fire the first placed.
C20_Witness ==
    /\ Len(wildfires) = 1
    /\ steps[1].promise = "fulfilled"
    /\ Cardinality(BurningCells(tokens)) >= 3

\* Two different cells that share a side or a corner.
Adjacent(a, b) ==
    /\ a # b
    /\ a[1] - b[1] \in {-1, 0, 1}
    /\ a[2] - b[2] \in {-1, 0, 1}

\* Cell c lies beside a cell in which a placed, flagged token stands.
BesidePlacedFire(toks, c) ==
    \E t \in Range(toks) : t.fire /\ Adjacent(c, getGridPos(t.x, t.y))

\* C21: every cell a step rolls for, and so every cell it lights, lies
\* beside a cell that held a placed fire when the step began; a cell lit
\* in the step is no source in the step.
C21_OneRingPerStep ==
    [][ \A h \in Hazards :
          Passes(h) =>
            /\ \A c \in CellsOf(steps'[h].batch) : BesidePlacedFire(tokens, c)
            /\ \A i \in 1..Len(steps'[h].rolls) :
                  BesidePlacedFire(tokens, steps'[h].rolls[i].cell) ]_vars

\* A step in flight has lit a cell, and beside that cell lies a flammable
\* cell without a fire that the step did not roll for: it lies beside no
\* placed fire.
C21_Witness ==
    \E h \in Hazards :
        /\ steps[h].pc = "commit"
        /\ \E b \in CellsOf(steps[h].batch) :
              \E c \in Range(getNeighbors(b)) :
                  /\ InFlammableRegion(drawings, getPixelPos(c)[1], getPixelPos(c)[2])
                  /\ c \notin BurningCells(tokens)
                  /\ ~ BesidePlacedFire(tokens, c)
                  /\ RollsFor(steps[h].rolls, c) = {}

\* The closure of the cells S under "neighbour whose square overlaps a
\* flammable drawing".
RECURSIVE Closure(_, _)
Closure(drs, S) ==
    LET reached == S \cup { c \in UNION { Range(getNeighbors(b)) : b \in S } :
                              InFlammableRegion(drs, getPixelPos(c)[1], getPixelPos(c)[2]) }
    IN  IF reached = S THEN S ELSE Closure(drs, reached)

\* The only instance has burnt all it can reach: fires stand in exactly
\* the closure of its source's cell, and a step in flight has lit nothing.
Fixpoint ==
    /\ Len(wildfires) = 1
    /\ BurningCells(tokens)
          = Closure(drawings, { getGridPos(wildfires[1].token.x, wildfires[1].token.y) })
    /\ steps[1].batch = <<>>
    /\ wildfires[1].newFires = <<>>

\* C22: with a chance that every draw meets, commits that succeed and
\* turn events that keep coming, the fire of a single instance comes to
\* stand in exactly the closure of its source's cell under "neighbour that
\* overlaps a flammable drawing", and from then on every step lights
\* nothing and the burning cells stay as they are, for as long as the
\* instance is the only one.
C22_ReachesFixpoint ==
    (Len(wildfires) = 1) ~> ([] Fixpoint \/ Len(wildfires) > 1)

\* At the fixpoint, after the fire has spread over three cells, a further
\* step is in flight with an empty batch.
C22_Witness ==
    /\ Fixpoint
    /\ Cardinality(BurningCells(tokens)) >= 3
    /\ steps[1].pc = "commit"

====
